---- MODULE Spec2Model ----
(***************************************************************************)
(* Smart attendance: session lifecycle and attendance ledger               *)
(* (firebaseService.ts) and the face matcher / descriptor registration     *)
(* (faceRecognition.ts).  Every Firestore round trip (an `await`) is one   *)
(* step of the calling client, so calls of different clients interleave    *)
(* exactly where the code awaits.                                          *)
(***************************************************************************)
EXTENDS Integers, Sequences, FiniteSets, TLC

----------------------------------------------------------------------------
(* Bounds of the model                                                     *)

NumClients == 2          \* clients (browser tabs) calling the service
MaxSessions == 2         \* session documents ever created
MaxRecords == 2          \* attendance documents ever created
MaxInstant == 1          \* number of the last instant the clock is read at
MaxDescriptors == 2      \* descriptors held at once: in memory, and in the store
MaxFaces == 1            \* faces detected in one frame
MaxStored == 11          \* descriptors in one list saved for the key order
TotalImages == 3         \* samples one capture collects (totalImages, 50 in the code)
MaxInFlight == 3         \* interval callbacks awaiting registerStudentFace at once

(* Inputs                                                                  *)
Clients == 1..NumClients
Sections == {"CSE-A", "CSE-B"}
Subjects == {"java"}
Teachers == {"t1"}
Durations == {10}                       \* handleStartSession: demo = 10 min
\* Date.now() in milliseconds is read at time 0 and, for each multiple of the
\* session length (the expiresAt of a session started one length earlier),
\* 1 ms after it and exactly at it: instants number 0, 1, 2, 3, 4, ... are
\* 0, 600001, 600000, 1200001, 1200000, ...
Instant(i) == IF i = 0 THEN 0 ELSE ((i + 1) \div 2) * (10 * 60 * 1000) + (i % 2)
Instants == {Instant(i) : i \in 0..MaxInstant}
UnknownRoll == "r0"                     \* a roll number no student has
StudentOrder == <<"s1", "s2">>          \* student documents in document-id order
StudentIds == {StudentOrder[i] : i \in 1..Len(StudentOrder)}

\* Math.random() returns RandomSample / 10000: the smallest value 0 and the
\* largest value below 1 on that grid
RandomSamples == {0, 9999}

None == "none"

\* Number.prototype.toString(): the decimal digits of n >= 0, most significant first
RECURSIVE Digits(_)
Digits(n) == IF n < 10 THEN <<n>> ELSE Append(Digits(n \div 10), n % 10)

VARIABLES
  now,          \* Date.now()
  sessions,     \* collection SESSIONS: sequence of documents, id = index
  attendance,   \* collection ATTENDANCE_LOGS: sequence of documents
  audits,       \* collection AUDITS: sequence of documents
  students,     \* collection STUDENTS: id -> document
  pc,           \* per client: where its current call is suspended
  loc,          \* per client: locals of its current (suspended) call
  ret,          \* what the call that finished in the last step returned or threw
  faceDescriptors,  \* faceRecognition.ts: Map roll number -> descriptors, in
                    \* insertion order, as a sequence of [key, descriptors]
  recognitions,     \* what the recognizeFaces call of the last step returned
  capture,          \* OpenCVFaceCapture: the locals of startCapture and its
                    \* interval callbacks
  dash              \* TeacherDashboard: its React state and the closure of the
                    \* handleStudentDetected the scanner calls

vars == <<now, sessions, attendance, audits, students, pc, loc, ret,
          faceDescriptors, recognitions, capture, dash>>

----------------------------------------------------------------------------
(* Firestore queries                                                       *)

SessionIds == 1..Len(sessions)

\* variant: the query also demands that the session is overdue
ActiveSessionsQuery_overdueOnly(sectionId) ==
  {s \in SessionIds : sessions[s].sectionId = sectionId /\ sessions[s].isActive = TRUE
                        /\ sessions[s].expiresAt < now}

\* query(SESSIONS, where sectionId == G, where isActive == true)
ActiveSessionsQuery(sectionId) ==
  {s \in SessionIds : sessions[s].sectionId = sectionId /\ sessions[s].isActive = TRUE}

\* variant: without the rollNumber filter, docs[0] is the first student document
FindStudentByRollNumber_firstStudent(rollNumber) == StudentOrder[1]

\* findStudentByRollNumber: query(STUDENTS, where rollNumber == r); docs[0] or null
FindStudentByRollNumber(rollNumber) ==
  LET found == {i \in StudentIds : students[i].rollNumber = rollNumber}
  IN IF found = {} THEN None ELSE CHOOSE i \in found : TRUE

\* query(ATTENDANCE_LOGS, studentId ==, sectionId ==, subjectId ==, timestamp > startTime)
ExistingAttendanceQuery(studentId, session) ==
  {r \in 1..Len(attendance) :
      /\ attendance[r].studentId = studentId
      /\ attendance[r].sectionId = session.sectionId
      /\ attendance[r].subjectId = session.subjectId
      /\ attendance[r].timestamp > session.startTime}

Idle == [op |-> None]
NoReturn == [out |-> None]

\* the call of client c finishes with `value`; its locals are dropped
Return(c, value) ==
  /\ pc' = [pc EXCEPT ![c] = "idle"]
  /\ loc' = [loc EXCEPT ![c] = Idle]
  /\ ret' = [out |-> value]

\* the call of client c finishes returning the session document `id`
ReturnSession(c, id) ==
  /\ pc' = [pc EXCEPT ![c] = "idle"]
  /\ loc' = [loc EXCEPT ![c] = Idle]
  /\ ret' = [out |-> "session"]

\* the call of client c is suspended at the await `label` with locals `l`
Await(c, label, l) ==
  /\ pc' = [pc EXCEPT ![c] = label]
  /\ loc' = [loc EXCEPT ![c] = l]
  /\ ret' = NoReturn

----------------------------------------------------------------------------
(* createAttendanceSession(teacherId, sectionId, subjectId, mode, minutes) *)

\* step 1: the query for an active session of the section
CreateQuery(c, teacherId, sectionId, subjectId, durationMinutes) ==
  /\ pc[c] = "idle"
  /\ IF ActiveSessionsQuery(sectionId) # {}
       THEN Return(c, "A session is already active for this class section.")
       ELSE Await(c, "create_write",
                  [op |-> "create", teacherId |-> teacherId, sectionId |-> sectionId,
                   subjectId |-> subjectId, durationMinutes |-> durationMinutes])
  /\ UNCHANGED <<now, sessions, attendance, audits, students, faceDescriptors, recognitions,
                 capture, dash>>

\* variant: the code is Math.floor(Math.random() * 9000).toString()
SessionCode_noOffset(random) == Digits((random * 9000) \div 10000)

\* Math.floor(1000 + Math.random() * 9000).toString(), Math.random() = random / 10000
SessionCode(random) == Digits((1000 * 10000 + random * 9000) \div 10000)

\* the document createAttendanceSession builds
NewSession(teacherId, sectionId, subjectId, durationMinutes, startTime, random) ==
  [teacherId |-> teacherId, sectionId |-> sectionId, subjectId |-> subjectId,
   isActive |-> TRUE, startTime |-> startTime,
   endTime |-> startTime + (durationMinutes * 60 * 1000),
   expiresAt |-> startTime + (durationMinutes * 60 * 1000),
   code |-> SessionCode(random)]

\* variant: the document is keyed by the section (doc(db, SESSIONS, sectionId))
\* instead of a fresh id, so setDoc replaces the section's earlier session
CreateWrite_keyedBySection(c, random) ==
  /\ pc[c] = "create_write"
  /\ LET old == {s \in SessionIds : sessions[s].sectionId = loc[c].sectionId}
         new == NewSession(loc[c].teacherId, loc[c].sectionId, loc[c].subjectId,
                           loc[c].durationMinutes, now, random)
     IN IF old = {}
          THEN /\ Len(sessions) < MaxSessions
               /\ sessions' = Append(sessions, new)
               /\ ReturnSession(c, Len(sessions) + 1)
          ELSE LET s == CHOOSE s \in old : TRUE
               IN /\ sessions' = [sessions EXCEPT ![s] = new]
                  /\ ReturnSession(c, s)
  /\ UNCHANGED <<now, attendance, audits, students, faceDescriptors, recognitions,
                 capture, dash>>

\* step 2: the session is built (Date.now(), Math.random()) and its setDoc
\* under a fresh document id reaches the store
CreateWrite(c, random) ==
  /\ pc[c] = "create_write"
  /\ Len(sessions) < MaxSessions
  /\ sessions' = Append(sessions,
        NewSession(loc[c].teacherId, loc[c].sectionId, loc[c].subjectId,
                   loc[c].durationMinutes, now, random))
  /\ ReturnSession(c, Len(sessions) + 1)
  /\ UNCHANGED <<now, attendance, audits, students, faceDescriptors, recognitions,
                 capture, dash>>

----------------------------------------------------------------------------
(* endAttendanceSession(sessionId)                                         *)

\* updateDoc(sessionRef, {isActive: false, endTime: Date.now()})
EndUpdate(sessionId) ==
  [sessions EXCEPT ![sessionId].isActive = FALSE, ![sessionId].endTime = now]

EndAttendanceSession(c, sessionId) ==
  /\ pc[c] = "idle"
  /\ sessionId \in SessionIds
  /\ sessions' = EndUpdate(sessionId)
  /\ Return(c, "void")
  /\ UNCHANGED <<now, attendance, audits, students, faceDescriptors, recognitions,
                 capture, dash>>

----------------------------------------------------------------------------
(* getActiveSessionForSection(sectionId)                                   *)

\* step 1: the query, then the expiry check on docs[0]; document ids are
\* random, so docs[0] is any one of the matching documents
GetActiveQuery(c, sectionId) ==
  /\ pc[c] = "idle"
  /\ LET snapshot == ActiveSessionsQuery(sectionId) IN
     IF snapshot = {}
       THEN Return(c, "null")
       ELSE \E first \in snapshot :
            IF sessions[first].expiresAt < now
              THEN Await(c, "getactive_end", [op |-> "getActive", first |-> first])
              ELSE ReturnSession(c, first)
  /\ UNCHANGED <<now, sessions, attendance, audits, students, faceDescriptors, recognitions,
                 capture, dash>>

\* step 2: await endAttendanceSession(docs[0].id); return null
GetActiveEnd(c) ==
  /\ pc[c] = "getactive_end"
  /\ sessions' = EndUpdate(loc[c].first)
  /\ Return(c, "null")
  /\ UNCHANGED <<now, attendance, audits, students, faceDescriptors, recognitions,
                 capture, dash>>

----------------------------------------------------------------------------
(* markSessionAttendance(sessionId, rollNumber)                            *)

\* variant: the session's isActive flag is not tested
MarkGetSession_noActiveCheck(c, sessionId, rollNumber) ==
  /\ pc[c] = "idle"
  /\ LET student == FindStudentByRollNumber(rollNumber) IN
     IF sessionId \notin SessionIds
       THEN Return(c, "Session not found")
       ELSE IF student = None
         THEN Return(c, "Student not found")
         ELSE Await(c, "mark_query",
                    [op |-> "mark", sessionId |-> sessionId,
                     studentId |-> student, timestamp |-> 0])
  /\ UNCHANGED <<now, sessions, attendance, audits, students, faceDescriptors, recognitions,
                 capture, dash>>

\* steps 1 and 2: getDoc of the session, then findStudentByRollNumber.  The
\* students collection does not change while sessions run, so the student
\* lookup is taken in the same step as the session read.  Of the session
\* snapshot the later steps read sectionId, subjectId, teacherId and
\* startTime only; no operation changes these fields, so the locals keep the
\* session id and the later steps read them from the document.
MarkGetSession(c, sessionId, rollNumber) ==
  /\ pc[c] = "idle"
  /\ LET student == FindStudentByRollNumber(rollNumber) IN
     IF sessionId \notin SessionIds
       THEN Return(c, "Session not found")
       ELSE IF ~sessions[sessionId].isActive
         THEN Return(c, "Session is inactive")
         ELSE IF student = None
           THEN Return(c, "Student not found")
           ELSE Await(c, "mark_query",
                      [op |-> "mark", sessionId |-> sessionId,
                       studentId |-> student, timestamp |-> 0])
  /\ UNCHANGED <<now, sessions, attendance, audits, students, faceDescriptors, recognitions,
                 capture, dash>>

\* step 3: the query for an existing record; when there is none the record is
\* built at once (timestamp: Date.now()) and its setDoc is issued
MarkQuery(c) ==
  /\ pc[c] = "mark_query"
  /\ IF ExistingAttendanceQuery(loc[c].studentId, sessions[loc[c].sessionId]) # {}
       THEN Return(c, "true")
       ELSE Await(c, "mark_write", [loc[c] EXCEPT !.timestamp = now])
  /\ UNCHANGED <<now, sessions, attendance, audits, students, faceDescriptors, recognitions,
                 capture, dash>>

\* the document markSessionAttendance builds; `sessionId` is not a stored
\* field: it remembers which session the mark call was for
NewRecord(l) ==
  [studentId |-> l.studentId, subjectId |-> sessions[l.sessionId].subjectId,
   teacherId |-> sessions[l.sessionId].teacherId,
   sectionId |-> sessions[l.sessionId].sectionId,
   timestamp |-> l.timestamp, present |-> TRUE, sessionId |-> l.sessionId]

\* step 4: the setDoc reaches the store
MarkWrite(c) ==
  /\ pc[c] = "mark_write"
  /\ Len(attendance) < MaxRecords
  /\ attendance' = Append(attendance, NewRecord(loc[c]))
  /\ Return(c, "true")
  /\ UNCHANGED <<now, sessions, audits, students, faceDescriptors, recognitions,
                 capture, dash>>

----------------------------------------------------------------------------
(* addAttendanceToFirebase(record), called by addAttendance (store.ts) with  *)
(* the fields of the caller's active session                                *)

\* the attendance document built from the record handleStudentDetected passes
\* (`sessionId` 0: the record is not written by a mark call)
AddedRecord(studentId, session) ==
  [studentId |-> studentId, subjectId |-> session.subjectId,
   teacherId |-> session.teacherId, sectionId |-> session.sectionId,
   timestamp |-> now, present |-> TRUE, sessionId |-> 0]

\* step 1: setDoc(attendanceRef, attendance); when it rejects the outer catch
\* rethrows.  The state of the calling component is the caller's to change.
AddAttendanceWrite(c, studentId, sessionId, ok) ==
  /\ pc[c] = "idle"
  /\ sessionId \in SessionIds
  /\ IF ok
       THEN /\ Len(attendance) < MaxRecords
            /\ attendance' = Append(attendance, AddedRecord(studentId, sessions[sessionId]))
            /\ Await(c, "add_audit", [op |-> "add", record |-> Len(attendance) + 1])
       ELSE /\ attendance' = attendance
            /\ Return(c, "Error adding attendance")
  /\ UNCHANGED <<now, sessions, audits, students, faceDescriptors, recognitions,
                 capture>>

\* the audit document of an attendance record
AuditLog(record) ==
  [actorId |-> record.teacherId, actorRole |-> "teacher", action |-> "add_attendance",
   target |-> record.studentId, timestamp |-> now]

\* variant: the audit setDoc is not wrapped in its own try/catch, so its
\* rejection reaches the outer catch, which rethrows
AddAttendanceAudit_rethrow(c, ok) ==
  /\ pc[c] = "add_audit"
  /\ IF ok
       THEN /\ audits' = Append(audits, AuditLog(attendance[loc[c].record]))
            /\ Return(c, "attendance")
       ELSE /\ audits' = audits
            /\ Return(c, "Error adding attendance")
  /\ UNCHANGED <<now, sessions, attendance, students, faceDescriptors, recognitions,
                 capture, dash>>

\* step 2: setDoc(auditRef, audit) inside the inner try; its rejection is
\* caught and logged; return attendance
AddAttendanceAudit(c, ok) ==
  /\ pc[c] = "add_audit"
  /\ audits' = IF ok THEN Append(audits, AuditLog(attendance[loc[c].record])) ELSE audits
  /\ Return(c, "attendance")
  /\ UNCHANGED <<now, sessions, attendance, students, faceDescriptors, recognitions,
                 capture, dash>>

----------------------------------------------------------------------------
Tick ==
  /\ \E t \in Instants : t > now /\ now' = t
  /\ ret' = NoReturn
  /\ UNCHANGED <<sessions, attendance, audits, students, pc, loc, faceDescriptors, recognitions,
                 capture, dash>>

\* OpenCVFaceCapture before Start is pressed
NoCapture ==
  [started |-> FALSE,        \* startCapture has run
   simulation |-> FALSE,     \* isSimulationMode of opencvFaceRecognition
   interval |-> FALSE,       \* captureInterval is set
   capturedCount |-> 0,
   faceFeatures |-> <<>>,
   uploadFailed |-> FALSE,   \* some promise of uploadPromises rejects
   inFlight |-> <<>>,        \* callbacks awaiting registerStudentFace: face found?
   finishing |-> <<>>,       \* callbacks awaiting Promise.all(uploadPromises): rejects?
   writes |-> 0]             \* updateDoc calls made (not a local of the code)

\* TeacherDashboard when it mounts
NoDash ==
  [activeSession |-> 0,      \* useState activeSession: a session id, 0 for null
   liveAttendance |-> {},    \* useState liveAttendance: the studentId (roll number)
                             \* of its entries
   handler |-> [activeSession |-> 0, liveAttendance |-> {}],
                             \* what the handleStudentDetected held by
                             \* onStudentDetectedRef closes over
   issued |-> {},            \* <<student, session>> of the addAttendance calls made
   detected |-> [studentId |-> None, sessionId |-> 0, added |-> FALSE]]
                             \* the last detection handled under a session, and
                             \* whether it called addAttendance
                             \* (issued, detected: not state of the code)

\* a document field holding an object: absent, or the object's fields
NoObject == [exists |-> FALSE, fields |-> <<>>]
Object(fields) == [exists |-> TRUE, fields |-> fields]

\* a student document before any face registration
StudentDoc(rollNumber, sectionId) ==
  [rollNumber |-> rollNumber, sectionId |-> sectionId,
   faceDescriptors |-> NoObject, faceDescriptorCount |-> 0, faceRegistered |-> FALSE]

InitStudents ==
  [i \in StudentIds |-> IF i = "s1" THEN StudentDoc("r1", "CSE-A")
                                    ELSE StudentDoc("r2", "CSE-B")]

Init ==
  /\ now = 0
  /\ sessions = <<>>
  /\ attendance = <<>>
  /\ audits = <<>>
  /\ students = InitStudents
  /\ pc = [c \in Clients |-> "idle"]
  /\ loc = [c \in Clients |-> Idle]
  /\ ret = NoReturn
  /\ faceDescriptors = <<>>
  /\ recognitions = <<>>
  /\ capture = NoCapture
  /\ dash = NoDash

\* session lifecycle: the SessionCoordinator calls of all clients; no call
\* reads a session's code, and every create draws Math.random() = 0 here
Next ==
  \/ Tick
  \/ \E c \in Clients, t \in Teachers, g \in Sections, j \in Subjects, d \in Durations :
        CreateQuery(c, t, g, j, d)
  \/ \E c \in Clients : CreateWrite(c, 0)
  \/ \E c \in Clients, s \in 1..MaxSessions : EndAttendanceSession(c, s)
  \/ \E c \in Clients, g \in Sections : GetActiveQuery(c, g)
  \/ \E c \in Clients : GetActiveEnd(c)

Spec == Init /\ [][Next]_vars

\* session creation: create and end calls of all clients, every create with
\* any of the sampled values of Math.random()
NextCreate ==
  \/ Tick
  \/ \E c \in Clients, t \in Teachers, g \in Sections, j \in Subjects, d \in Durations :
        CreateQuery(c, t, g, j, d)
  \/ \E c \in Clients, r \in RandomSamples : CreateWrite(c, r)
  \/ \E c \in Clients, s \in 1..MaxSessions : EndAttendanceSession(c, s)

SpecCreate == Init /\ [][NextCreate]_vars

\* attendance ledger: a session of CSE-A has just been created at time 0
InitLedger ==
  /\ now = 0
  /\ sessions = <<NewSession("t1", "CSE-A", "java", 10, 0, 0)>>
  /\ attendance = <<>>
  /\ audits = <<>>
  /\ students = InitStudents
  /\ pc = [c \in Clients |-> "idle"]
  /\ loc = [c \in Clients |-> Idle]
  /\ ret = NoReturn
  /\ faceDescriptors = <<>>
  /\ recognitions = <<>>
  /\ capture = NoCapture
  /\ dash = NoDash

NextLedger ==
  \/ Tick
  \/ \E c \in Clients, s \in 1..MaxSessions : EndAttendanceSession(c, s)
  \/ \E c \in Clients, g \in Sections : GetActiveQuery(c, g)
  \/ \E c \in Clients : GetActiveEnd(c)
  \/ \E c \in Clients, s \in 1..MaxSessions, r \in {"r1", UnknownRoll} :
        MarkGetSession(c, s, r)
  \/ \E c \in Clients : MarkQuery(c)
  \/ \E c \in Clients : MarkWrite(c)

SpecLedger == InitLedger /\ [][NextLedger]_vars

\* attendance added through addAttendance while the session of CSE-A runs;
\* either setDoc may be rejected by the store
NextAdd ==
  \/ Tick
  \/ \E c \in Clients, s \in 1..MaxSessions : EndAttendanceSession(c, s)
  \/ \E c \in Clients, i \in StudentIds, s \in 1..MaxSessions, ok \in BOOLEAN :
        AddAttendanceWrite(c, i, s, ok) /\ UNCHANGED dash
  \/ \E c \in Clients, ok \in BOOLEAN : AddAttendanceAudit(c, ok)

SpecAdd == InitLedger /\ [][NextAdd]_vars

----------------------------------------------------------------------------
(* Face descriptors.  A descriptor is a Float32Array of `len` components;  *)
(* the model keeps the descriptors <<x/10, 0, ..., 0>>, so the Euclidean   *)
(* distance of two of them is |x1 - x2| / 10.  Distances and confidences   *)
(* are counted in tenths.                                                  *)

Descriptor(x) == [len |-> 128, x |-> x]
\* faces seen while enrolling, and faces seen while scanning: probe 1 is at
\* confidence 0.9 and 1.0 of the enrolled faces, probe 7 at 0.3 and 0.4
\* (the threshold), probe 13 at distance above 1 (confidence 0) of both
EnrolX == {0, 1}
ProbeX == {1, 7, 13}
FaceKeys == {"r1", "r2"}         \* keys registerStudentFace is called with
SaveArgs == {"r1", "r2", "s1", UnknownRoll}

SeqsUpTo(S, n) == UNION {[1..k -> S] : k \in 0..n}
EnrolDetections == SeqsUpTo({Descriptor(x) : x \in EnrolX}, 1)
ProbeDetections == SeqsUpTo({Descriptor(x) : x \in ProbeX}, MaxFaces)
DescriptorLists == SeqsUpTo({Descriptor(x) : x \in EnrolX}, MaxDescriptors)

\* array lengths saveFaceDescriptors is called with: a FaceAPI descriptor
\* (128), an array of another length above 50, and a short array
Lengths == {128, 60, 3}
MixedLists == SeqsUpTo({[len |-> l, x |-> 0] : l \in Lengths}, MaxDescriptors)
\* n distinct descriptors, the k-th one being <<(k - 1)/10, 0, ..., 0>>
IndexedList(n) == [k \in 1..n |-> Descriptor(k - 1)]
IndexedLists == {IndexedList(n) : n \in 1..MaxStored}

Abs(n) == IF n < 0 THEN -n ELSE n
Max(a, b) == IF a > b THEN a ELSE b

\* faceapi.euclideanDistance of two descriptors of one length
EuclideanDistance(a, b) == Abs(a.x - b.x)

\* Math.max(0, 1 - distance)
Confidence(a, b) == Max(0, 10 - EuclideanDistance(a, b))

Tau == 4                 \* confidence > 0.4
HighConfidence == 8      \* confidence > 0.8

(* the Map faceDescriptors *)
MapKeys(m) == {m[i].key : i \in 1..Len(m)}
MapGet(m, k) ==
  IF k \in MapKeys(m) THEN m[CHOOSE i \in 1..Len(m) : m[i].key = k].descriptors
                      ELSE <<>>
\* `origin` is not part of the Map: it remembers where the descriptors of the
\* entry came from: "loaded" (set by a load), "captured" (all pushed by
\* registerStudentFace), or "mixed" (set by a load, then pushed to)
MapSet(m, k, v) ==
  IF k \in MapKeys(m)
    THEN [i \in 1..Len(m) |-> IF m[i].key = k
                                 THEN [key |-> k, descriptors |-> v, origin |-> "loaded"]
                                 ELSE m[i]]
    ELSE Append(m, [key |-> k, descriptors |-> v, origin |-> "loaded"])
\* if (!has(k)) set(k, []); get(k).push(d)
MapPush(m, k, d) ==
  IF k \in MapKeys(m)
    THEN [i \in 1..Len(m) |-> IF m[i].key = k
                                 THEN [m[i] EXCEPT
                                         !.descriptors = Append(@, d),
                                         !.origin = IF @ = "captured" THEN @ ELSE "mixed"]
                                 ELSE m[i]]
    ELSE Append(m, [key |-> k, descriptors |-> <<d>>, origin |-> "captured"])
MapOrigin(m, k) ==
  IF k \in MapKeys(m) THEN m[CHOOSE i \in 1..Len(m) : m[i].key = k].origin ELSE None

RECURSIVE SumLen(_)
SumLen(lists) == IF lists = <<>> THEN 0 ELSE Len(Head(lists)) + SumLen(Tail(lists))

\* number of descriptors in the map / in the student documents but `except`
InMemory(m) == SumLen([i \in 1..Len(m) |-> m[i].descriptors])
InStore(except) ==
  SumLen([i \in 1..Len(StudentOrder) |->
            IF StudentOrder[i] = except \/ ~students[StudentOrder[i]].faceDescriptors.exists
              THEN <<>>
              ELSE [k \in 1..students[StudentOrder[i]].faceDescriptorCount |-> k]])

FaceReturn(value) == [out |-> value]

(* Object.keys(obj).sort(): the keys desc_<n> in string order *)
LexLess(a, b) ==
  \E i \in 1..(Len(a) + 1) :
    /\ i <= Len(b)
    /\ \A j \in 1..(i - 1) : j <= Len(a) /\ a[j] = b[j]
    /\ (i = Len(a) + 1 \/ a[i] < b[i])

RECURSIVE SortedKeys(_)
SortedKeys(K) ==
  IF K = {} THEN <<>>
  ELSE LET m == CHOOSE m \in K : \A k \in K \ {m} : LexLess(Digits(m), Digits(k))
       IN <<m>> \o SortedKeys(K \ {m})

\* desc.length === 128 || desc.length === 100 || desc.length > 50
ValidLength(d) == d.len = 128 \/ d.len = 100 \/ d.len > 50

\* the sequence s without the elements that fail Test
RECURSIVE FilterValid(_)
FilterValid(ds) ==
  IF ds = <<>> THEN <<>>
  ELSE (IF ValidLength(Head(ds)) THEN <<Head(ds)>> ELSE <<>>) \o FilterValid(Tail(ds))

\* Object.keys(obj).sort().map(key => obj[key]).filter(valid length)
StoredDescriptors(obj) ==
  LET keys == SortedKeys(DOMAIN obj.fields)
  IN FilterValid([i \in 1..Len(keys) |-> obj.fields[keys[i]]])

\* loadFaceDescriptorsForSection / loadAllFaceDescriptors (students collection):
\* the students of `ids` in order, each with its valid stored descriptors
RECURSIVE LoadDescriptorsMap(_, _)
LoadDescriptorsMap(ids, m) ==
  IF ids = <<>> THEN m
  ELSE LET doc == students[Head(ids)]
           descriptors == IF doc.faceDescriptors.exists
                            THEN StoredDescriptors(doc.faceDescriptors) ELSE <<>>
       IN LoadDescriptorsMap(Tail(ids),
            IF Len(descriptors) > 0 THEN MapSet(m, doc.rollNumber, descriptors) ELSE m)

RECURSIVE StudentsOfSection(_, _)
StudentsOfSection(ids, sectionId) ==
  IF ids = <<>> THEN <<>>
  ELSE (IF sectionId = None \/ students[Head(ids)].sectionId = sectionId
          THEN <<Head(ids)>> ELSE <<>>) \o StudentsOfSection(Tail(ids), sectionId)

\* what loadFaceDescriptorsFromFirebase(sectionId) leaves in faceDescriptors:
\* the map is cleared and refilled from the loaded one (None: no section given)
LoadedFaceDescriptors(sectionId) ==
  LET descriptorsMap == LoadDescriptorsMap(StudentsOfSection(StudentOrder, sectionId), <<>>)
      RECURSIVE Refill(_, _)
      Refill(i, m) ==
        IF i > Len(descriptorsMap) THEN m
        ELSE LET float32Descriptors == FilterValid(descriptorsMap[i].descriptors)
             IN Refill(i + 1, IF Len(float32Descriptors) > 0
                                THEN MapSet(m, descriptorsMap[i].key, float32Descriptors)
                                ELSE m)
  IN Refill(1, <<>>)

LoadFaceDescriptorsFromFirebase(sectionId) ==
  /\ faceDescriptors' = LoadedFaceDescriptors(sectionId)
  /\ ret' = FaceReturn("void")
  /\ recognitions' = <<>>
  /\ UNCHANGED <<now, sessions, attendance, audits, students, pc, loc,
                 capture, dash>>

\* registerStudentFace(studentId, image): the first detected face is pushed
RegisterStudentFace(studentId, detections) ==
  /\ Len(detections) = 0 \/ InMemory(faceDescriptors) < MaxDescriptors
  /\ IF Len(detections) = 0
       THEN /\ ret' = FaceReturn("false")
            /\ faceDescriptors' = faceDescriptors
       ELSE /\ faceDescriptors' = MapPush(faceDescriptors, studentId, detections[1])
            /\ ret' = FaceReturn("true")
  /\ recognitions' = <<>>
  /\ UNCHANGED <<now, sessions, attendance, audits, students, pc, loc,
                 capture, dash>>

\* updateDoc(studentRef, {faceDescriptors: {desc_0: .., desc_1: ..},
\*                        faceDescriptorCount, faceRegistered: true})
SavedStudentDoc(doc, descriptors) ==
  [doc EXCEPT !.faceDescriptors =
                  Object([k \in 0..(Len(descriptors) - 1) |-> descriptors[k + 1]]),
              !.faceDescriptorCount = Len(descriptors),
              !.faceRegistered = TRUE]

\* saveFaceDescriptors(studentId, descriptors)
SaveFaceDescriptors(studentId, descriptors) ==
  /\ students' = [students EXCEPT ![studentId] = SavedStudentDoc(@, descriptors)]
  /\ ret' = FaceReturn("void")
  /\ recognitions' = <<>>
  /\ UNCHANGED <<now, sessions, attendance, audits, pc, loc, faceDescriptors,
                 capture, dash>>

\* getStudentFromFirebase(id): the document with that id, or null
GetStudentFromFirebase(id) == IF id \in StudentIds THEN id ELSE None

\* saveFaceDescriptorsToFirebase(studentIdOrRoll): the descriptors captured in
\* memory are saved under the student's document
SaveFaceDescriptorsToFirebase(studentIdOrRoll) ==
  LET byRoll == FindStudentByRollNumber(studentIdOrRoll)
      student == IF byRoll # None THEN byRoll ELSE GetStudentFromFirebase(studentIdOrRoll)
  IN
  IF student = None
    THEN /\ ret' = FaceReturn("Student not found")
         /\ recognitions' = <<>>
         /\ UNCHANGED <<now, sessions, attendance, audits, students, pc, loc, faceDescriptors,
                        capture, dash>>
    ELSE LET byRollNumber == MapGet(faceDescriptors, students[student].rollNumber)
             descriptors == IF Len(byRollNumber) = 0
                              THEN MapGet(faceDescriptors, studentIdOrRoll)
                              ELSE byRollNumber
         IN IF Len(descriptors) = 0
              THEN /\ ret' = FaceReturn("No face descriptors found. Please try capturing again.")
                   /\ recognitions' = <<>>
                   /\ UNCHANGED <<now, sessions, attendance, audits, students, pc, loc,
                                  faceDescriptors, capture, dash>>
              ELSE SaveFaceDescriptors(student, descriptors)

(* recognizeFaces: the matching loops *)
NoMatch == [studentId |-> "unknown", confidence |-> 0, isRecognized |-> FALSE]

\* variant: a confidence equal to the threshold is accepted
RECURSIVE ScanDescriptors_atLeastTau(_, _, _, _, _)
ScanDescriptors_atLeastTau(probe, studentId, descriptors, j, bestMatch) ==
  IF j > Len(descriptors) THEN bestMatch
  ELSE LET confidence == Confidence(probe, descriptors[j]) IN
       IF confidence >= Tau /\ (~bestMatch.isRecognized \/ confidence > bestMatch.confidence)
         THEN LET found == [studentId |-> studentId, confidence |-> confidence,
                            isRecognized |-> TRUE]
              IN IF confidence > HighConfidence THEN found
                 ELSE ScanDescriptors_atLeastTau(probe, studentId, descriptors, j + 1, found)
         ELSE ScanDescriptors_atLeastTau(probe, studentId, descriptors, j + 1, bestMatch)

\* the inner loop over one student's descriptors, from index j on
RECURSIVE ScanDescriptors(_, _, _, _, _)
ScanDescriptors(probe, studentId, descriptors, j, bestMatch) ==
  IF j > Len(descriptors) THEN bestMatch
  ELSE LET confidence == Confidence(probe, descriptors[j]) IN
       IF confidence > Tau /\ (~bestMatch.isRecognized \/ confidence > bestMatch.confidence)
         THEN LET found == [studentId |-> studentId, confidence |-> confidence,
                            isRecognized |-> TRUE]
              IN IF confidence > HighConfidence THEN found
                 ELSE ScanDescriptors(probe, studentId, descriptors, j + 1, found)
         ELSE ScanDescriptors(probe, studentId, descriptors, j + 1, bestMatch)

\* the outer loop over faceDescriptors.entries(), from entry i on
RECURSIVE ScanStudents(_, _, _, _)
ScanStudents(probe, m, i, bestMatch) ==
  IF i > Len(m) THEN bestMatch
  ELSE LET best == ScanDescriptors(probe, m[i].key, m[i].descriptors, 1, bestMatch)
       IN IF best.isRecognized /\ best.confidence > HighConfidence
            THEN best
            ELSE ScanStudents(probe, m, i + 1, best)

\* one entry of the result; `descriptor` stands for the detection's box, which
\* the code passes through to tell the detections apart
Recognition(probe, m) ==
  LET bestMatch == ScanStudents(probe, m, 1, NoMatch)
  IN [studentId |-> bestMatch.studentId, confidence |-> bestMatch.confidence,
      isRecognized |-> bestMatch.isRecognized, descriptor |-> probe]

\* recognizeFaces(image), `detections` being what detectFaces finds in the image
RecognizeFaces(detections) ==
  /\ IF Len(detections) = 0
       THEN /\ recognitions' = <<>>
            /\ faceDescriptors' = faceDescriptors
       ELSE LET m == IF Len(faceDescriptors) = 0
                       THEN LoadedFaceDescriptors(None)
                       ELSE faceDescriptors
            IN /\ faceDescriptors' = m
               /\ recognitions' = [k \in 1..Len(detections) |-> Recognition(detections[k], m)]
  /\ ret' = FaceReturn("recognitions")
  /\ UNCHANGED <<now, sessions, attendance, audits, students, pc, loc,
                 capture, dash>>

NextFace ==
  \/ \E k \in FaceKeys, d \in EnrolDetections : RegisterStudentFace(k, d)
  \/ \E a \in SaveArgs :
        SaveFaceDescriptorsToFirebase(a) /\ InStore(None)' <= MaxDescriptors
  \/ \E i \in StudentIds, ds \in DescriptorLists :
        SaveFaceDescriptors(i, ds) /\ InStore(None)' <= MaxDescriptors
  \/ \E g \in Sections \cup {None} : LoadFaceDescriptorsFromFirebase(g)
  \/ \E d \in ProbeDetections : RecognizeFaces(d)

SpecFace == Init /\ [][NextFace]_vars

\* the matcher: enrolment in memory, its persistence, loads and matches
NextMatch ==
  \/ \E k \in FaceKeys, d \in EnrolDetections : RegisterStudentFace(k, d)
  \/ \E a \in SaveArgs :
        SaveFaceDescriptorsToFirebase(a) /\ InStore(None)' <= MaxDescriptors
  \/ \E g \in Sections \cup {None} : LoadFaceDescriptorsFromFirebase(g)
  \/ \E d \in ProbeDetections : RecognizeFaces(d)

SpecMatch == Init /\ [][NextMatch]_vars

\* descriptor store: saves, for one student, of arrays of any length and of
\* lists of up to MaxStored descriptors, and loads into memory
NextStore ==
  \/ \E ds \in MixedLists \cup IndexedLists : SaveFaceDescriptors(StudentOrder[1], ds)
  \/ \E g \in Sections \cup {None} : LoadFaceDescriptorsFromFirebase(g)

SpecStore == Init /\ [][NextStore]_vars

----------------------------------------------------------------------------
(* The calls of faceRecognition.ts step by step: a call is suspended at    *)
(* each await (the Firestore read of a load, detectFaces of a match) and   *)
(* what lies between two awaits runs without interruption.                 *)

\* the descriptors enrolled for a student: all equal, x = 0 for the first
\* student and x = 1 for the second
OwnX(studentId) == IF studentId = StudentOrder[1] THEN 0 ELSE 1
OwnLists(studentId) ==
  {[k \in 1..n |-> Descriptor(OwnX(studentId))] : n \in 1..MaxDescriptors}
StudentOfRoll(rollNumber) ==
  CHOOSE i \in StudentIds : InitStudents[i].rollNumber = rollNumber

\* loadFaceDescriptorsForSection(sectionId) / loadAllFaceDescriptors()
DescriptorsMap(sectionId) ==
  LoadDescriptorsMap(StudentsOfSection(StudentOrder, sectionId), <<>>)

\* faceDescriptors.clear(), then the loop over descriptorsMap.entries()
RECURSIVE Refill(_, _, _)
Refill(descriptorsMap, i, m) ==
  IF i > Len(descriptorsMap) THEN m
  ELSE LET float32Descriptors == FilterValid(descriptorsMap[i].descriptors)
       IN Refill(descriptorsMap, i + 1,
                 IF Len(float32Descriptors) > 0
                   THEN MapSet(m, descriptorsMap[i].key, float32Descriptors)
                   ELSE m)

\* variant: the map is cleared before the read is awaited
LoadFetch_clearFirst(c, sectionId) ==
  /\ pc[c] = "idle"
  /\ Await(c, "load_apply", [op |-> "load", descriptorsMap |-> DescriptorsMap(sectionId)])
  /\ faceDescriptors' = <<>>
  /\ recognitions' = <<>>
  /\ UNCHANGED <<now, sessions, attendance, audits, students, capture, dash>>

\* loadFaceDescriptorsFromFirebase(sectionId) up to its await: the read of
\* the student documents (None: no section given)
LoadFetch(c, sectionId) ==
  /\ pc[c] = "idle"
  /\ Await(c, "load_apply", [op |-> "load", descriptorsMap |-> DescriptorsMap(sectionId)])
  /\ recognitions' = <<>>
  /\ UNCHANGED <<now, sessions, attendance, audits, students, faceDescriptors,
                 capture, dash>>

\* loadFaceDescriptorsFromFirebase after the await: clear and refill
LoadApply(c) ==
  /\ pc[c] = "load_apply"
  /\ faceDescriptors' = Refill(loc[c].descriptorsMap, 1, <<>>)
  /\ Return(c, "void")
  /\ recognitions' = <<>>
  /\ UNCHANGED <<now, sessions, attendance, audits, students, capture, dash>>

\* recognizeFaces(image) up to its first await: detectFaces(image)
RecognizeStart(c, detections) ==
  /\ pc[c] = "idle"
  /\ Await(c, "recognize_scan", [op |-> "recognize", detections |-> detections])
  /\ recognitions' = <<>>
  /\ UNCHANGED <<now, sessions, attendance, audits, students, faceDescriptors,
                 capture, dash>>

\* recognizeFaces after detectFaces: no face, [] ; an empty map, the await of
\* loadFaceDescriptorsFromFirebase() ; otherwise the matching loops
RecognizeScan(c) ==
  /\ pc[c] = "recognize_scan"
  /\ IF Len(loc[c].detections) = 0
       THEN /\ recognitions' = <<>>
            /\ Return(c, "recognitions")
       ELSE IF Len(faceDescriptors) = 0
         THEN /\ recognitions' = <<>>
              /\ Await(c, "recognize_load",
                       [op |-> "recognize", detections |-> loc[c].detections,
                        descriptorsMap |-> DescriptorsMap(None)])
         ELSE /\ recognitions' = [k \in 1..Len(loc[c].detections) |->
                                    Recognition(loc[c].detections[k], faceDescriptors)]
              /\ Return(c, "recognitions")
  /\ UNCHANGED <<now, sessions, attendance, audits, students, faceDescriptors,
                 capture, dash>>

\* recognizeFaces after its load returned: the load's clear and refill, then
\* the matching loops (no entry: every face is unknown)
RecognizeLoaded(c) ==
  /\ pc[c] = "recognize_load"
  /\ faceDescriptors' = Refill(loc[c].descriptorsMap, 1, <<>>)
  /\ recognitions' = [k \in 1..Len(loc[c].detections) |->
                        Recognition(loc[c].detections[k], faceDescriptors')]
  /\ Return(c, "recognitions")
  /\ UNCHANGED <<now, sessions, attendance, audits, students, capture, dash>>

\* frames of the scanner: faces at confidence 0.9 of the first student's
\* descriptors and 1.0 of the second's
SnapshotDetections == SeqsUpTo({Descriptor(1)}, MaxFaces)
\* the scanner's load of its section, and the load without a section
LoadArgs == {"CSE-A", None}
\* one page: two calls at most are in flight at once
Calls == {1, 2}
NextSnapshot ==
  \/ \E i \in StudentIds : \E ds \in OwnLists(i) : SaveFaceDescriptors(i, ds)
  \/ \E c \in Calls, g \in LoadArgs : LoadFetch(c, g)
  \/ \E c \in Calls : LoadApply(c)
  \/ \E c \in Calls, d \in SnapshotDetections : RecognizeStart(c, d)
  \/ \E c \in Calls : RecognizeScan(c)
  \/ \E c \in Calls : RecognizeLoaded(c)

SpecSnapshot == Init /\ [][NextSnapshot]_vars

----------------------------------------------------------------------------
(* OpenCVFaceCapture.startCapture for the student s1.  setInterval runs the  *)
(* async callback every 300 ms without waiting for the earlier callbacks.    *)
(* With the cascade loaded, registerStudentFace awaits nothing that takes    *)
(* time, so a callback reaches its check of capturedCount before the next    *)
(* one starts; in simulation mode it awaits a 100 ms timer and always        *)
(* succeeds, and a late timer lets the next callback start meanwhile         *)

CaptureStudent == StudentOrder[1]
\* the features registerStudentFace (opencvFaceRecognition) extracts
Features == [len |-> 100, x |-> 0]

\* the sequence q without its k-th element
RemoveAt(q, k) == SubSeq(q, 1, k - 1) \o SubSeq(q, k + 1, Len(q))

\* startCapture: fresh locals, setInterval
StartCapture(simulation) ==
  /\ ~capture.started
  /\ capture' = [NoCapture EXCEPT !.started = TRUE, !.interval = TRUE,
                                  !.simulation = simulation]
  /\ ret' = NoReturn
  /\ UNCHANGED <<now, sessions, attendance, audits, students, pc, loc,
                 faceDescriptors, recognitions, dash>>

\* the interval fires: the frame is drawn and registerStudentFace is awaited;
\* `found` tells whether the frame shows a face
CaptureTick(found) ==
  /\ capture.interval
  /\ Len(capture.inFlight) < (IF capture.simulation THEN MaxInFlight ELSE 1)
  /\ capture.simulation => found
  /\ capture' = [capture EXCEPT !.inFlight = Append(@, found)]
  /\ ret' = NoReturn
  /\ UNCHANGED <<now, sessions, attendance, audits, students, pc, loc,
                 faceDescriptors, recognitions, dash>>

\* the k-th waiting callback resumes after registerStudentFace: on success the
\* features are pushed, the upload promise is made (`uploadOk`: it will
\* resolve) and capturedCount++; then, face or not, capturedCount >= totalImages
\* clears the interval and awaits Promise.all(uploadPromises)
CaptureResume(k, uploadOk) ==
  /\ k \in 1..Len(capture.inFlight)
  /\ LET found == capture.inFlight[k]
         count == IF found THEN capture.capturedCount + 1 ELSE capture.capturedCount
         failed == IF found THEN capture.uploadFailed \/ ~uploadOk ELSE capture.uploadFailed
         done == count >= TotalImages
     IN capture' = [capture EXCEPT
                      !.inFlight = RemoveAt(@, k),
                      !.capturedCount = count,
                      !.faceFeatures = IF found THEN Append(@, Features) ELSE @,
                      !.uploadFailed = failed,
                      !.interval = IF done THEN FALSE ELSE @,
                      !.finishing = IF done THEN Append(@, failed) ELSE @]
  /\ ret' = NoReturn
  /\ UNCHANGED <<now, sessions, attendance, audits, students, pc, loc,
                 faceDescriptors, recognitions, dash>>

\* the k-th finishing callback resumes after Promise.all: a rejection goes to
\* the catch (status message only); otherwise trainKNNModel, then updateDoc
\* with the faceFeatures collected by then
CaptureFinish(k) ==
  /\ k \in 1..Len(capture.finishing)
  /\ IF capture.finishing[k]
       THEN /\ students' = students
            /\ capture' = [capture EXCEPT !.finishing = RemoveAt(@, k)]
       ELSE /\ students' = [students EXCEPT
                              ![CaptureStudent] = SavedStudentDoc(@, capture.faceFeatures)]
            /\ capture' = [capture EXCEPT !.finishing = RemoveAt(@, k), !.writes = @ + 1]
  /\ ret' = NoReturn
  /\ UNCHANGED <<now, sessions, attendance, audits, pc, loc, faceDescriptors,
                 recognitions, dash>>

NextCapture ==
  \/ \E simulation \in BOOLEAN : StartCapture(simulation)
  \/ \E found \in BOOLEAN : CaptureTick(found)
  \/ \E k \in 1..MaxInFlight, uploadOk \in BOOLEAN : CaptureResume(k, uploadOk)
  \/ \E k \in 1..(MaxInFlight + 1) : CaptureFinish(k)

SpecCapture == Init /\ [][NextCapture]_vars

----------------------------------------------------------------------------
(* TeacherDashboard: handleStartSession, handleEndSession and the          *)
(* handleStudentDetected the kiosk scanner (AttendanceSession) calls for   *)
(* every recognised face through onStudentDetectedRef.  A state setter     *)
(* takes effect for the handlers at the next render, whose effect stores   *)
(* the new handleStudentDetected in the ref.  The continuation of an       *)
(* awaited call runs before any other task.                                *)

\* a call of the dashboard has returned and its continuation has not run
ContinuationPending == ret.out \in {"session", "void"}

\* handleStartSession up to its await: createAttendanceSession(teacherId,
\* selectedSection, selectedSubject, mode, 10)
HandleStartSession(c, sectionId, subjectId) ==
  CreateQuery(c, "t1", sectionId, subjectId, 10)

\* handleStartSession after the await: setActiveSession(session)
HandleStartSessionReturn ==
  /\ ret.out = "session"
  /\ dash' = [dash EXCEPT !.activeSession = Len(sessions)]
  /\ ret' = NoReturn
  /\ UNCHANGED <<now, sessions, attendance, audits, students, pc, loc,
                 faceDescriptors, recognitions, capture>>

\* handleEndSession up to its await: endAttendanceSession(activeSession.id)
HandleEndSession(c) ==
  /\ dash.activeSession # 0
  /\ EndAttendanceSession(c, dash.activeSession)

\* handleEndSession after the await: setActiveSession(null)
HandleEndSessionReturn ==
  /\ ret.out = "void"
  /\ dash' = [dash EXCEPT !.activeSession = 0]
  /\ ret' = NoReturn
  /\ UNCHANGED <<now, sessions, attendance, audits, students, pc, loc,
                 faceDescriptors, recognitions, capture>>

\* the dashboard renders: useCallback builds handleStudentDetected over the
\* current activeSession and liveAttendance, and the effect of
\* AttendanceSession stores it in onStudentDetectedRef
Render ==
  /\ dash.handler # [activeSession |-> dash.activeSession,
                     liveAttendance |-> dash.liveAttendance]
  /\ dash' = [dash EXCEPT !.handler = [activeSession |-> dash.activeSession,
                                       liveAttendance |-> dash.liveAttendance]]
  /\ ret' = NoReturn
  /\ UNCHANGED <<now, sessions, attendance, audits, students, pc, loc,
                 faceDescriptors, recognitions, capture>>

\* handleStudentDetected(studentData) with an active session, for a student
\* found in liveAttendance: return
HandleStudentDetectedSeen(studentId) ==
  /\ dash.handler.activeSession # 0
  /\ students[studentId].rollNumber \in dash.handler.liveAttendance
  /\ dash' = [dash EXCEPT !.detected = [studentId |-> studentId,
                                        sessionId |-> dash.handler.activeSession,
                                        added |-> FALSE]]
  /\ ret' = NoReturn
  /\ UNCHANGED <<now, sessions, attendance, audits, students, pc, loc,
                 faceDescriptors, recognitions, capture>>

\* handleStudentDetected(studentData) with an active session, for a student
\* not found in liveAttendance: setLiveAttendance (whose setter adds the roll
\* number unless the list has it), then addAttendance with the fields of
\* activeSession up to the first await of addAttendanceToFirebase; what it
\* throws is caught and logged
HandleStudentDetected(c, studentId, ok) ==
  /\ dash.handler.activeSession # 0
  /\ students[studentId].rollNumber \notin dash.handler.liveAttendance
  /\ dash' = [dash EXCEPT
               !.liveAttendance = @ \cup {students[studentId].rollNumber},
               !.issued = @ \cup {<<studentId, dash.handler.activeSession>>},
               !.detected = [studentId |-> studentId,
                             sessionId |-> dash.handler.activeSession,
                             added |-> TRUE]]
  /\ AddAttendanceWrite(c, studentId, dash.handler.activeSession, ok)

\* the dashboard of the teacher of CSE-A; its buttons are disabled while a
\* start or an end is awaited (loading), so these two use one call slot
SelectedSection == "CSE-A"
NextKiosk ==
  \/ ~ContinuationPending /\ Tick
  \/ \E j \in Subjects : ~ContinuationPending /\ HandleStartSession(1, SelectedSection, j)
  \/ ~ContinuationPending /\ CreateWrite(1, 0)
  \/ HandleStartSessionReturn
  \/ ~ContinuationPending /\ HandleEndSession(1)
  \/ HandleEndSessionReturn
  \/ ~ContinuationPending /\ Render
  \/ \E i \in StudentIds : ~ContinuationPending /\ HandleStudentDetectedSeen(i)
  \/ \E c \in Clients, i \in StudentIds, ok \in BOOLEAN :
        ~ContinuationPending /\ HandleStudentDetected(c, i, ok)
  \/ \E c \in Clients, ok \in BOOLEAN : ~ContinuationPending /\ AddAttendanceAudit(c, ok)

SpecKiosk == Init /\ [][NextKiosk]_vars

----------------------------------------------------------------------------
(* Properties                                                              *)

ConflictError == "A session is already active for this class section."

\* attendance documents written by mark calls for (studentId, sessionId)
RecordsFor(log, studentId, sessionId) ==
  {r \in 1..Len(log) : log[r].studentId = studentId /\ log[r].sessionId = sessionId}

\* C1: for every section at most one stored session has isActive = true,
\* also while createAttendanceSession calls for the section interleave.
C1_AtMostOneActivePerSection ==
  \A g \in Sections : Cardinality(ActiveSessionsQuery(g)) <= 1

\* C2: whenever a markSessionAttendance call for (student, session) finishes
\* with success, exactly one attendance record of that student and session
\* exists, whatever other mark calls for the pair ran before or alongside.
C2_ExactlyOneRecordPerPair ==
  [][\A c \in Clients :
       (pc[c] \in {"mark_query", "mark_write"} /\ pc'[c] = "idle")
         => Cardinality(RecordsFor(attendance', loc[c].studentId, loc[c].sessionId)) = 1]_vars

\* C3: a markSessionAttendance call on a stored session whose expiresAt is
\* earlier than the current time fails with the session-inactive error (and
\* so never reaches its insert), also when the session is still stored active.
C3_MarkAfterExpiryFails ==
  [][\A c \in Clients, s \in 1..MaxSessions, r \in {"r1", UnknownRoll} :
       (MarkGetSession(c, s, r) /\ s \in SessionIds /\ sessions[s].expiresAt < now)
         => (ret'.out = "Session is inactive" /\ pc'[c] = "idle")]_vars

\* sessions of section g that are stored active and overdue at time t
Overdue(g, t) ==
  {s \in SessionIds : sessions[s].sectionId = g /\ sessions[s].isActive
                        /\ sessions[s].expiresAt < t}

\* C4: a getActiveSessionForSection(G) call invoked after the expiresAt of a
\* stored active session of G returns null and leaves that session stored
\* with isActive = false.  At the call's second step the sessions of G that
\* were active and overdue at the invocation include every still active one
\* that expires no later than docs[0], which the call found overdue.
C4_GetActiveEndsOverdue ==
  [][/\ \A c \in Clients, g \in Sections :
          (GetActiveQuery(c, g) /\ pc'[c] = "idle")
            => \A s \in Overdue(g, now) :
                  ret'.out = "null" /\ ~sessions'[s].isActive
     /\ \A c \in Clients :
          GetActiveEnd(c)
            => \A s \in Overdue(sessions[loc[c].first].sectionId,
                               sessions[loc[c].first].expiresAt + 1) :
                  ret'.out = "null" /\ ~sessions'[s].isActive]_vars

\* the largest confidence the probe reaches over all descriptors of the map
MaxConfidence(probe, m) ==
  LET seen == {0} \cup UNION {{Confidence(probe, m[i].descriptors[j]) :
                                   j \in 1..Len(m[i].descriptors)} : i \in 1..Len(m)}
  IN CHOOSE c \in seen : \A d \in seen : d <= c

CapturedFor(a) ==
  LET byRoll == FindStudentByRollNumber(a)
      student == IF byRoll # None THEN byRoll ELSE GetStudentFromFirebase(a)
  IN IF student = None THEN <<>>
     ELSE IF Len(MapGet(faceDescriptors, students[student].rollNumber)) > 0
       THEN MapGet(faceDescriptors, students[student].rollNumber)
       ELSE MapGet(faceDescriptors, a)

\* C6: a registration with zero vectors (saveFaceDescriptors with an empty
\* list, or saveFaceDescriptorsToFirebase with nothing captured) fails with an
\* error and leaves every student document, stored descriptors and the
\* registered flag included, unchanged.
C6_EmptyRegistrationRejected ==
  [][/\ \A i \in StudentIds :
          SaveFaceDescriptors(i, <<>>) => (students' = students /\ ret'.out # "void")
     /\ \A a \in SaveArgs :
          (SaveFaceDescriptorsToFirebase(a) /\ Len(CapturedFor(a)) = 0)
            => (students' = students /\ ret'.out # "void")]_vars

\* C7: while a created session of section G is stored active and has not
\* reached its expiresAt, a createAttendanceSession call for G fails with the
\* conflict error at its query and writes no session document.
C7_CreateConflict ==
  [][\A c \in Clients, t \in Teachers, g \in Sections, j \in Subjects, d \in Durations :
       (/\ CreateQuery(c, t, g, j, d)
        /\ \E s \in SessionIds : /\ sessions[s].sectionId = g
                                  /\ sessions[s].isActive
                                  /\ now < sessions[s].expiresAt)
         => (ret'.out = ConflictError /\ pc'[c] = "idle" /\ sessions' = sessions)]_vars

\* a create call has just been refused while an unexpired active session of
\* some section is stored
C7_Witness ==
  /\ ret.out = ConflictError
  /\ \E s \in SessionIds : sessions[s].isActive /\ now < sessions[s].expiresAt

\* C8: a markSessionAttendance call that reaches its existence lookup while
\* exactly one record of its (student, session) pair is stored returns success
\* at once and leaves the attendance collection as it is (the record unchanged,
\* still one record for the pair).
C8_MarkExistingIsNoOp ==
  [][\A c \in Clients :
       (/\ MarkQuery(c)
        /\ Cardinality(RecordsFor(attendance, loc[c].studentId, loc[c].sessionId)) = 1)
         => (ret'.out = "true" /\ pc'[c] = "idle" /\ attendance' = attendance)]_vars

\* C9: a session stored with isActive = false is never stored with
\* isActive = true again, whatever calls follow.
C9_EndedIsTerminal ==
  [][\A s \in SessionIds : ~sessions[s].isActive => ~sessions'[s].isActive]_vars

\* a section has an ended session and a later created active one
C9_Witness ==
  \E s1, s2 \in SessionIds :
    /\ s1 < s2
    /\ sessions[s1].sectionId = sessions[s2].sectionId
    /\ ~sessions[s1].isActive
    /\ sessions[s2].isActive

\* C10: endAttendanceSession on a session already stored with isActive = false
\* changes no stored field of it, the recorded end time included.
C10_EndOnEndedIsNoOp ==
  [][\A c \in Clients, s \in 1..MaxSessions :
       (EndAttendanceSession(c, s) /\ ~sessions[s].isActive)
         => (sessions' = sessions /\ ret'.out = "void")]_vars

\* the number a string of decimal digits denotes
RECURSIVE DecimalValue(_)
DecimalValue(d) ==
  IF Len(d) = 0 THEN 0 ELSE DecimalValue(SubSeq(d, 1, Len(d) - 1)) * 10 + d[Len(d)]

\* C11: every createAttendanceSession call that succeeds stores (and returns)
\* one new session document for the arguments of the call with isActive = true,
\* startTime = the time the call reads, expiresAt = startTime + durationMinutes
\* minutes, and a code that is a decimal string denoting a number in 1000..9999.
C11_CreatedSessionFields ==
  [][\A c \in Clients :
       (pc[c] = "create_write" /\ pc'[c] = "idle")
         => /\ ret'.out = "session"
            /\ Len(sessions') = Len(sessions) + 1
            /\ SubSeq(sessions', 1, Len(sessions)) = sessions
            /\ LET new == sessions'[Len(sessions')] IN
                 /\ new.sectionId = loc[c].sectionId
                 /\ new.isActive = TRUE
                 /\ new.startTime = now
                 /\ new.expiresAt = new.startTime + loc[c].durationMinutes * 60 * 1000
                 /\ \A i \in 1..Len(new.code) : new.code[i] \in 0..9
                 /\ Len(new.code) = 4
                 /\ DecimalValue(new.code) \in 1000..9999]_vars

\* a create call has just returned a session started after time 0 whose code
\* is the largest one
C11_Witness ==
  /\ ret.out = "session"
  /\ Len(sessions) > 0
  /\ sessions[Len(sessions)].code = <<9, 9, 9, 9>>
  /\ sessions[Len(sessions)].startTime = now
  /\ now > 0

\* C12: a markSessionAttendance call that loads a session stored with
\* isActive = false fails with the session-inactive error and ends there,
\* having written no attendance record.
C12_MarkOnEndedFails ==
  [][\A c \in Clients, s \in 1..MaxSessions, r \in {"r1", UnknownRoll} :
       (MarkGetSession(c, s, r) /\ s \in SessionIds /\ ~sessions[s].isActive)
         => /\ ret'.out = "Session is inactive"
            /\ pc'[c] = "idle"
            /\ attendance' = attendance]_vars

\* a mark call has just been refused on a session that is stored ended
C12_Witness ==
  /\ ret.out = "Session is inactive"
  /\ \E s \in SessionIds : ~sessions[s].isActive

\* C13: a markSessionAttendance call throws "Session not found" when no
\* session document has the given id, and throws (with "Student not found"
\* when the session is there and active) when no student has the given roll
\* number; in both cases the call ends there, having written no attendance
\* record.
C13_MarkNotFoundFails ==
  [][\A c \in Clients, s \in 1..MaxSessions, r \in {"r1", UnknownRoll} :
       /\ (MarkGetSession(c, s, r) /\ s \notin SessionIds)
            => /\ ret'.out = "Session not found"
               /\ pc'[c] = "idle"
               /\ attendance' = attendance
       /\ (MarkGetSession(c, s, r) /\ \A i \in StudentIds : students[i].rollNumber # r)
            => /\ ret'.out \in {"Session not found", "Session is inactive",
                                "Student not found"}
               /\ (s \in SessionIds /\ sessions[s].isActive
                     => ret'.out = "Student not found")
               /\ pc'[c] = "idle"
               /\ attendance' = attendance]_vars

\* a mark call with an unknown roll number has just been refused on an active
\* session that already has a record
C13_Witness ==
  /\ ret.out = "Student not found"
  /\ \E s \in SessionIds : sessions[s].isActive
  /\ Len(attendance) > 0

\* C14: when the setDoc of the audit entry is rejected, the
\* addAttendanceToFirebase call still returns the attendance record without
\* raising, and the record it wrote stays stored.
C14_AuditFailureSwallowed ==
  [][\A c \in Clients :
       AddAttendanceAudit(c, FALSE)
         => /\ ret'.out = "attendance"
            /\ pc'[c] = "idle"
            /\ attendance' = attendance
            /\ loc[c].record \in 1..Len(attendance')]_vars

\* an add call has just returned its record although no audit entry was
\* written for it
C14_Witness ==
  /\ ret.out = "attendance"
  /\ \A c \in Clients : pc[c] = "idle"
  /\ Len(attendance) > Len(audits)

\* C15: every matched entry of a recognizeFaces result names a student who
\* holds a descriptor whose confidence is the maximum confidence over all
\* descriptors of all students held for the match, and carries that maximum
\* as its confidence.
C15_MatchedIsArgmax ==
  \A k \in 1..Len(recognitions) :
    recognitions[k].isRecognized
      => LET best == MaxConfidence(recognitions[k].descriptor, faceDescriptors)
             own == MapGet(faceDescriptors, recognitions[k].studentId)
         IN /\ recognitions[k].confidence = best
            /\ \E j \in 1..Len(own) :
                  Confidence(recognitions[k].descriptor, own[j]) = best

\* C16: every detection whose maximum confidence over all descriptors held
\* for the match is below the threshold comes back unmatched with that
\* maximum as its confidence.
C16_UnmatchedReportsMax ==
  \A k \in 1..Len(recognitions) :
    MaxConfidence(recognitions[k].descriptor, faceDescriptors) < Tau
      => /\ ~recognitions[k].isRecognized
         /\ recognitions[k].confidence
              = MaxConfidence(recognitions[k].descriptor, faceDescriptors)

\* C17: a recognizeFaces call on a frame with faces, made while no descriptor
\* is held for matching, fails with an error instead of returning a result.
C17_EmptyCandidatesFails ==
  [][\A d \in ProbeDetections :
       (RecognizeFaces(d) /\ Len(d) > 0 /\ Len(faceDescriptors) = 0)
         => ret'.out # "recognitions"]_vars

\* C18: a recognizeFaces call leaves the descriptors held for matching as
\* they were, whatever the frame and whatever is held (nothing included).
C18_RecognizeHasNoSideEffects ==
  [][\A d \in ProbeDetections :
       RecognizeFaces(d) => faceDescriptors' = faceDescriptors]_vars

\* C19: a recognizeFaces call made while the descriptors held for matching
\* are exactly what loadFaceDescriptorsFromFirebase(G) yields matches against
\* students of section G only: every identity it returns is a student of G
\* and every key it held for the match is the roll number of a student of G.
C19_MatchScopedToSection ==
  [][\A g \in Sections, d \in ProbeDetections :
       (RecognizeFaces(d) /\ faceDescriptors = LoadedFaceDescriptors(g))
         => /\ \A k \in 1..Len(recognitions') :
                 recognitions'[k].isRecognized
                   => \A i \in StudentIds :
                        students[i].rollNumber = recognitions'[k].studentId
                          => students[i].sectionId = g
            /\ \A key \in MapKeys(faceDescriptors') :
                 \A i \in StudentIds :
                   students[i].rollNumber = key => students[i].sectionId = g]_vars

\* the key under which saveFaceDescriptorsToFirebase(a) finds the captured
\* descriptors of CapturedFor(a)
CapturedKey(a) ==
  LET byRoll == FindStudentByRollNumber(a)
      student == IF byRoll # None THEN byRoll ELSE GetStudentFromFirebase(a)
  IN IF student # None /\ Len(MapGet(faceDescriptors, students[student].rollNumber)) > 0
       THEN students[student].rollNumber
       ELSE a

\* C20: after a registration succeeds, the descriptors a load yields for the
\* student are exactly the vectors of that registration.  For
\* saveFaceDescriptors(i, vectors) these are `vectors`; for
\* saveFaceDescriptorsToFirebase after at least one capture they are the
\* vectors registerStudentFace captured, so the saved array is not one that
\* an earlier load brought in and later captures were appended to.
C20_RegistrationOverwrites ==
  [][/\ \A i \in StudentIds, ds \in DescriptorLists :
          SaveFaceDescriptors(i, ds)
            => StoredDescriptors(students'[i].faceDescriptors) = ds
     /\ \A a \in SaveArgs :
          (SaveFaceDescriptorsToFirebase(a) /\ ret'.out = "void")
            => MapOrigin(faceDescriptors, CapturedKey(a)) \in {"captured", "loaded"}]_vars

\* the arrays stored in a student document, and the arrays held in memory
StoredVectors(i) ==
  IF students[i].faceDescriptors.exists
    THEN {students[i].faceDescriptors.fields[k] : k \in DOMAIN students[i].faceDescriptors.fields}
    ELSE {}
HeldVectors == UNION {{faceDescriptors[e].descriptors[j] :
                          j \in 1..Len(faceDescriptors[e].descriptors)} :
                       e \in 1..Len(faceDescriptors)}

\* C21: in every reachable state all descriptor vectors stored in the student
\* documents and all vectors loaded for matching have one fixed length D.
C21_FixedDimension ==
  \E D \in Lengths :
    /\ \A i \in StudentIds : \A v \in StoredVectors(i) : v.len = D
    /\ \A v \in HeldVectors : v.len = D

\* C22: a capture writes the descriptors and the registered flag at most
\* once, and what it writes is exactly TotalImages vectors; a callback whose
\* frame shows no face adds no vector and does not advance the count,
\* however the interval callbacks interleave.
C22_CaptureOnceExactCount ==
  [][/\ capture'.writes <= 1
     /\ capture'.writes > capture.writes
          => students'[CaptureStudent].faceDescriptorCount = TotalImages
     /\ \A k \in 1..Len(capture.inFlight) :
          (CaptureResume(k, TRUE) /\ ~capture.inFlight[k])
            => /\ capture'.faceFeatures = capture.faceFeatures
               /\ capture'.capturedCount = capture.capturedCount]_vars

\* C23: when the upload of one or more samples fails, the capture still
\* writes the collected vectors and marks the student registered.
C23_UploadFailureDoesNotAbort ==
  [][\A k \in 1..Len(capture.finishing) :
       (CaptureFinish(k) /\ capture.finishing[k])
         => /\ students'[CaptureStudent].faceRegistered
            /\ students'[CaptureStudent].faceDescriptorCount > 0]_vars

C27_OverdueCountsAsEnded ==
  [][\A c \in Clients, t \in Teachers, g \in Sections, j \in Subjects, d \in Durations :
       (/\ CreateQuery(c, t, g, j, d)
        /\ Overdue(g, now) # {}
        /\ ActiveSessionsQuery(g) = Overdue(g, now))
         => (ret'.out # ConflictError /\ pc'[c] = "create_write")]_vars

\* the descriptors of a student document in the order of their index:
\* desc_0, desc_1, ..., desc_(n-1)
SavedInIndexOrder(doc) ==
  [k \in 1..doc.faceDescriptorCount |-> doc.faceDescriptors.fields[k - 1]]

\* C28: for a student whose document holds descriptors desc_0 .. desc_(n-1),
\* all of them of an accepted length, loadFaceDescriptorsForSection of the
\* student's section and loadAllFaceDescriptors return these n descriptors
\* in index order, for every n >= 1.
C28_LoadKeepsIndexOrder ==
  \A i \in StudentIds :
    (/\ students[i].faceDescriptors.exists
     /\ students[i].faceDescriptorCount >= 1
     /\ \A k \in 1..students[i].faceDescriptorCount :
          ValidLength(SavedInIndexOrder(students[i])[k]))
      => \A g \in {students[i].sectionId, None} :
           MapGet(DescriptorsMap(g), students[i].rollNumber)
             = SavedInIndexOrder(students[i])

\* C25: during one session the handler issues at most one addAttendance
\* call for a student, whatever the order of detections and renders.
C25_OneWritePerStudent ==
  [][\A c \in Clients, i \in StudentIds, ok \in BOOLEAN :
       HandleStudentDetected(c, i, ok)
         => <<i, dash.handler.activeSession>> \notin dash.issued]_vars

\* C26: a record the kiosk handler writes reaches the store while the
\* session it is written for is stored active and has not expired.
C26_WrittenWhileSessionLive ==
  [][\A c \in Clients, i \in StudentIds :
       HandleStudentDetected(c, i, TRUE)
         => /\ sessions[dash.handler.activeSession].isActive
            /\ sessions[dash.handler.activeSession].expiresAt > now]_vars

\* C30: under an active session a detection is left without an
\* addAttendance call only when a call was made for that student in that
\* session: students seen in an earlier session are not held back.
C30_SeenListIsPerSession ==
  (dash.detected.studentId # None /\ ~dash.detected.added)
    => <<dash.detected.studentId, dash.detected.sessionId>> \in dash.issued

TypeOK == now \in Instants
====
